---- MODULE Spec2Model ----
(***************************************************************************)
(* Model of the two batch scripts water_area.py (NDWI, water) and          *)
(* salt_area.py (SCI, salt crust): argument check, directory check, the    *)
(* sorted file loop with year extraction and area computation, and the     *)
(* final hand-over of the time series to plot_area_over_time.              *)
(*                                                                         *)
(* Strings are sequences of one-character strings.  Floating point values  *)
(* are records [k, n, d]: k = "num" is the rational n/d with d > 0, and    *)
(* k = "nan" is not-a-number.  The band values of the model are small      *)
(* integers and simple fractions whose index values are away from the      *)
(* thresholds (or exactly on 0.2), so that the comparisons on rationals    *)
(* agree with the float32 comparisons of the scripts.                      *)
(***************************************************************************)
EXTENDS Integers, Sequences, FiniteSets, TLC

VARIABLES
    variant,              \* "water" (water_area.py) or "salt" (salt_area.py)
    sysBound,             \* whether the name sys resolves at the argument check
    argc,                 \* len(sys.argv)
    dirExists,            \* os.path.isdir(image_folder)
    disk,                 \* directory entries: filename -> raster content
    listing,              \* sorted(os.listdir(image_folder)), once scanned
    idx,                  \* position of the for loop in listing
    time_series_results,  \* the accumulated list of (year, area)
    log,                  \* what the script printed, in order
    pc,                   \* "argcheck", "dircheck", "loop" or "exited"
    exitStatus,           \* process exit status once pc = "exited"
    opened,               \* filenames handed to gdal.Open so far
    outcome,              \* per loop iteration: what happened to the entry
    calc,                 \* the latest calculate_*_area call: bands, index, mask
    handed,               \* the series as passed to plot_area_over_time
    renders,              \* number of calls of plot_area_over_time
    display               \* "none", "chart" or "nodata"

vars == <<variant, sysBound, argc, dirExists, disk, listing, idx,
          time_series_results, log, pc, exitStatus, opened, outcome, calc,
          handed, renders, display>>

\* Python's None, and a value that is not None
None == [some |-> FALSE, v |-> 0]
Some(x) == [some |-> TRUE, v |-> x]

(***************************************************************************)
(* Bounds of the model.                                                    *)
(***************************************************************************)
MaxFiles == 3     \* entries in a directory of the batch specification
MaxStem == 6      \* characters before the extension, year specification
MaxCols == 2      \* columns of a band array, index specification

(***************************************************************************)
(* Characters and strings.                                                 *)
(***************************************************************************)
\* the characters of the model's alphabet that \d matches
Digits == {"0", "1", "2", "9"}

\* Unicode code points of the characters the model uses (str ordering).
CodePoint(c) ==
    CASE c = "." -> 46 [] c = "0" -> 48 [] c = "1" -> 49 [] c = "2" -> 50
      [] c = "9" -> 57 [] c = "A" -> 65 [] c = "F" -> 70 [] c = "I" -> 73
      [] c = "T" -> 84 [] c = "a" -> 97 [] c = "b" -> 98 [] c = "c" -> 99
      [] c = "f" -> 102 [] c = "i" -> 105 [] c = "t" -> 116 [] c = "x" -> 120

\* str.lower() on one character.
LowerChar(c) ==
    CASE c = "A" -> "a" [] c = "F" -> "f" [] c = "I" -> "i" [] c = "T" -> "t"
      [] OTHER -> c

lower(s) == [k \in 1..Len(s) |-> LowerChar(s[k])]

endswith(s, suffix) ==
    /\ Len(s) >= Len(suffix)
    /\ SubSeq(s, Len(s) - Len(suffix) + 1, Len(s)) = suffix

\* filename.lower().endswith(('.tif', '.tiff'))
IsRasterName(filename) ==
    \/ endswith(lower(filename), <<".", "t", "i", "f">>)
    \/ endswith(lower(filename), <<".", "t", "i", "f", "f">>)

\* str < str: lexicographic by code point, a proper prefix sorts first.
RECURSIVE StrLess(_, _)
StrLess(s, t) ==
    IF s = <<>> THEN t # <<>>
    ELSE IF t = <<>> THEN FALSE
    ELSE IF CodePoint(Head(s)) # CodePoint(Head(t))
         THEN CodePoint(Head(s)) < CodePoint(Head(t))
    ELSE StrLess(Tail(s), Tail(t))

\* sorted(os.listdir(image_folder)): the entries are distinct names.
RECURSIVE sorted(_)
RECURSIVE sortedReversed(_)
sortedReversed(S) ==
    IF S = {} THEN <<>>
    ELSE LET m == CHOOSE x \in S : \A y \in S \ {x} : StrLess(y, x)
         IN  <<m>> \o sortedReversed(S \ {m})

sorted(S) ==
    IF S = {} THEN <<>>
    ELSE LET m == CHOOSE x \in S : \A y \in S \ {x} : StrLess(x, y)
         IN  <<m>> \o sorted(S \ {m})

(***************************************************************************)
(* extract_year_from_filename: re.search(r'(19|20)\d{2}', filename).       *)
(***************************************************************************)
DigitVal(c) == CASE c = "0" -> 0 [] c = "1" -> 1 [] c = "2" -> 2 [] c = "9" -> 9

\* the pattern matches the four characters starting at position p
MatchAt(s, p) ==
    /\ p + 3 <= Len(s)
    /\ \/ (s[p] = "1" /\ s[p + 1] = "9")
       \/ (s[p] = "2" /\ s[p + 1] = "0")
    /\ s[p + 2] \in Digits
    /\ s[p + 3] \in Digits

\* re.search tries the start positions from left to right
RECURSIVE search(_, _)
search(s, p) ==
    IF p + 3 > Len(s) THEN 0
    ELSE IF MatchAt(s, p) THEN p
    ELSE search(s, p + 1)

\* int(match.group(0))
RECURSIVE int(_)
int(ds) ==
    IF ds = <<>> THEN 0
    ELSE 10 * int(SubSeq(ds, 1, Len(ds) - 1)) + DigitVal(ds[Len(ds)])

RECURSIVE searchLast(_, _)
searchLast(s, p) ==
    IF p < 1 THEN 0
    ELSE IF MatchAt(s, p) THEN p
    ELSE searchLast(s, p - 1)

extract_year_rightmost(filename) ==
    LET p == searchLast(filename, Len(filename) - 3)
    IN  IF p # 0 THEN Some(int(SubSeq(filename, p, p + 3))) ELSE None

extract_year_from_filename(filename) ==
    LET p == search(filename, 1)
    IN  IF p # 0 THEN Some(int(SubSeq(filename, p, p + 3))) ELSE None

\* "if year:" -- None and 0 are both falsy
Truthy(year) == year.some /\ year.v # 0

(***************************************************************************)
(* Floating point values and arrays.                                       *)
(***************************************************************************)
NaN == [k |-> "nan", n |-> 0, d |-> 1]
Q(n, d) == IF d < 0 THEN [k |-> "num", n |-> -n, d |-> -d]
           ELSE [k |-> "num", n |-> n, d |-> d]
F(n) == Q(n, 1)

isnan(x) == x.k = "nan"

fadd(x, y) == IF isnan(x) \/ isnan(y) THEN NaN
              ELSE Q(x.n * y.d + y.n * x.d, x.d * y.d)
fsub(x, y) == IF isnan(x) \/ isnan(y) THEN NaN
              ELSE Q(x.n * y.d - y.n * x.d, x.d * y.d)
fmul(x, y) == IF isnan(x) \/ isnan(y) THEN NaN
              ELSE Q(x.n * y.n, x.d * y.d)
\* only evaluated where the divisor is not zero
fdiv(x, y) == IF isnan(x) \/ isnan(y) THEN NaN
              ELSE Q(x.n * y.d, x.d * y.n)
\* np.maximum propagates NaN
fmaximum(x, y) == IF isnan(x) \/ isnan(y) THEN NaN
                  ELSE IF x.n * y.d >= y.n * x.d THEN x ELSE y

\* comparisons: every comparison with NaN is False, NaN != 0 is True
fgt(x, y) == ~isnan(x) /\ ~isnan(y) /\ x.n * y.d > y.n * x.d
fge(x, y) == ~isnan(x) /\ ~isnan(y) /\ x.n * y.d >= y.n * x.d
fle(x, y) == ~isnan(x) /\ ~isnan(y) /\ x.n * y.d <= y.n * x.d
fne0(x) == isnan(x) \/ x.n # 0

\* An array is a sequence of rows of equal length.
Rows(a) == Len(a)
Cols(a) == Len(a[1])
Shape(a) == <<Rows(a), Cols(a)>>

\* numpy broadcasting of two 2-D shapes: per axis equal, or one of them 1
Broadcastable(s, t) ==
    \A ax \in 1..2 : s[ax] = t[ax] \/ s[ax] = 1 \/ t[ax] = 1
BMax(x, y) == IF x >= y THEN x ELSE y
BShape(s, t) == <<BMax(s[1], t[1]), BMax(s[2], t[2])>>
\* the element of a that takes part at position (r, c) of the result
At(a, r, c) == a[IF Rows(a) = 1 THEN 1 ELSE r][IF Cols(a) = 1 THEN 1 ELSE c]

\* np.sum of a boolean array
CountTrue(m) ==
    Cardinality({rc \in (1..Rows(m)) \X (1..Cols(m)) : m[rc[1]][rc[2]]})

(***************************************************************************)
(* Configuration constants of the two scripts.                             *)
(***************************************************************************)
GREEN_BAND_IN_FILE(v) == IF v = "water" THEN 2 ELSE 1
NIR_BAND_IN_FILE == 4
RED_BAND_IN_FILE == 3
SWIR_BAND_IN_FILE == 6
NDWI_THRESHOLD == Q(2, 10)
SCI_THRESHOLD_MIN == Q(4, 100)
SCI_THRESHOLD_MAX == Q(15, 100)
PIXEL_AREA_SQ_METERS == 900

(***************************************************************************)
(* A raster file: [open, bands].  open says whether gdal.Open returns a    *)
(* dataset; bands[k] is what GetRasterBand(k).ReadAsArray() returns, and   *)
(* GetRasterBand(k) is None for k beyond the bands of the file.            *)
(***************************************************************************)
HasBand(ds, k) == k \in 1..Len(ds.bands)

\* what a calculate_*_area call returns and leaves behind:
\* area is the return value, printed says whether the except clause ran
Result(area, printed, green, nir, index, mask) ==
    [area |-> area, printed |-> printed, green |-> green, nir |-> nir,
     index |-> index, mask |-> mask]
Failed(printed) == Result(None, printed, <<>>, <<>>, <<>>, <<>>)

\* the positions np.divide(..., where=(denominator != 0)) does not write:
\* without out=, they keep whatever the fresh result buffer held
UnwrittenNdwi(ds, green_band_num, nir_band_num) ==
    IF ~ds.open \/ ~HasBand(ds, green_band_num) \/ ~HasBand(ds, nir_band_num)
    THEN {}
    ELSE LET green == ds.bands[green_band_num]
             nir == ds.bands[nir_band_num]
             shp == BShape(Shape(green), Shape(nir))
         IN  IF ~Broadcastable(Shape(green), Shape(nir)) THEN {}
             ELSE {rc \in (1..shp[1]) \X (1..shp[2]) :
                     ~fne0(fadd(At(green, rc[1], rc[2]), At(nir, rc[1], rc[2])))}

\* one element of ndwi after line 45; b is what the fresh result buffer of
\* np.divide held there, which stays when the denominator is zero
ndwi_swapped(green, nir, b) ==
    LET numerator == fadd(green, nir)
        denominator == fsub(green, nir)
        divided == IF fne0(denominator) THEN fdiv(numerator, denominator) ELSE b
    IN  IF isnan(divided) THEN F(0) ELSE divided

ndwi_element(green, nir, b) ==
    LET numerator == fsub(green, nir)
        denominator == fadd(green, nir)
        divided == IF fne0(denominator) THEN fdiv(numerator, denominator) ELSE b
    IN  IF isnan(divided) THEN F(0) ELSE divided

\* buf[<<r, c>>]: the content of the fresh result buffer at the positions
\* np.divide leaves unwritten
calculate_water_area(ds, green_band_num, nir_band_num, threshold, pixel_area, buf) ==
    IF ~ds.open THEN Failed(FALSE)
    ELSE IF ~HasBand(ds, green_band_num) \/ ~HasBand(ds, nir_band_num)
    THEN Failed(TRUE)
    ELSE
      LET green_array == ds.bands[green_band_num]
          nir_array == ds.bands[nir_band_num]
      IN  IF ~Broadcastable(Shape(green_array), Shape(nir_array))
          THEN Failed(TRUE)
          ELSE
            LET shp == BShape(Shape(green_array), Shape(nir_array))
                unwritten == UnwrittenNdwi(ds, green_band_num, nir_band_num)
                element(r, c) ==
                    ndwi_element(At(green_array, r, c), At(nir_array, r, c),
                                 IF <<r, c>> \in unwritten THEN buf[<<r, c>>]
                                 ELSE NaN)
                ndwi == [r \in 1..shp[1] |-> [c \in 1..shp[2] |-> element(r, c)]]
                above(r, c) == fgt(ndwi[r][c], threshold)
                water_mask == [r \in 1..shp[1] |-> [c \in 1..shp[2] |-> above(r, c)]]
                water_pixel_count == CountTrue(water_mask)
            IN  Result(Some(water_pixel_count * pixel_area), FALSE,
                       green_array, nir_array, ndwi, water_mask)

calculate_salt_area(ds, green_band_num, nir_band_num, red_band_num, swir_band_num, threshold_min, threshold_max, pixel_area) ==
    IF ~ds.open THEN Failed(FALSE)
    ELSE IF \E k \in {green_band_num, nir_band_num, red_band_num, swir_band_num} :
               ~HasBand(ds, k)
    THEN Failed(TRUE)
    ELSE
      LET green_array == ds.bands[green_band_num]
          nir_array == ds.bands[nir_band_num]
          red_array == ds.bands[red_band_num]
          swir_array == ds.bands[swir_band_num]
          s1 == BShape(Shape(red_array), Shape(green_array))
          s2 == BShape(Shape(nir_array), Shape(swir_array))
          s3 == BShape(Shape(red_array), Shape(swir_array))
          s4 == BShape(s2, s3)
          s5 == BShape(s1, s4)
          shp == BShape(s5, Shape(green_array))
      IN  IF ~(/\ Broadcastable(Shape(red_array), Shape(green_array))
               /\ Broadcastable(Shape(nir_array), Shape(swir_array))
               /\ Broadcastable(Shape(red_array), Shape(swir_array))
               /\ Broadcastable(s2, s3)
               /\ Broadcastable(s1, s4)
               /\ Broadcastable(s5, Shape(green_array)))
          THEN Failed(TRUE)
          ELSE
            LET sci_expr(r, c) ==
                    fsub(fsub(At(red_array, r, c), At(green_array, r, c)),
                         fmul(Q(3, 10),
                              fsub(fsub(At(nir_array, r, c), At(swir_array, r, c)),
                                   fsub(At(red_array, r, c), At(swir_array, r, c)))))
                clamped(r, c) == fmaximum(sci_expr(r, c), F(0))
                weighted(r, c) == fmul(clamped(r, c), At(green_array, r, c))
                fixed(r, c) == IF isnan(weighted(r, c)) THEN F(0) ELSE weighted(r, c)
                SCI == [r \in 1..shp[1] |-> [c \in 1..shp[2] |-> fixed(r, c)]]
                inside(r, c) == /\ fge(SCI[r][c], threshold_min)
                                /\ fle(SCI[r][c], threshold_max)
                salt_mask == [r \in 1..shp[1] |-> [c \in 1..shp[2] |-> inside(r, c)]]
                salt_pixel_count == CountTrue(salt_mask)
            IN  Result(Some(salt_pixel_count * pixel_area), FALSE,
                       green_array, nir_array, SCI, salt_mask)

(***************************************************************************)
(* plot_area_over_time: list.sort() on (year, area) tuples, in place.      *)
(***************************************************************************)
\* tuple comparison (year, area) < (year, area)
TupleLess(x, y) == x[1] < y[1] \/ (x[1] = y[1] /\ x[2] < y[2])

\* insert x into the sorted list t behind every element not greater than it
RECURSIVE Insert(_, _)
Insert(t, x) ==
    IF t = <<>> THEN <<x>>
    ELSE IF TupleLess(x, Head(t)) THEN <<x>> \o t
    ELSE <<Head(t)>> \o Insert(Tail(t), x)

RECURSIVE InsertByYear(_, _)
InsertByYear(t, x) ==
    IF t = <<>> THEN <<x>>
    ELSE IF x[1] < Head(t)[1] THEN <<x>> \o t
    ELSE <<Head(t)>> \o InsertByYear(Tail(t), x)

RECURSIVE sort_by_year(_)
sort_by_year(data) ==
    IF data = <<>> THEN <<>>
    ELSE InsertByYear(sort_by_year(SubSeq(data, 1, Len(data) - 1)), data[Len(data)])

RECURSIVE sort(_)
sort(data) ==
    IF data = <<>> THEN <<>>
    ELSE Insert(sort(SubSeq(data, 1, Len(data) - 1)), data[Len(data)])

\* [data: the list after the call, shown: what reached the screen]
plot_unchecked(time_series_data) ==
    [data |-> sort(time_series_data), shown |-> "chart"]

plot_area_over_time(time_series_data) ==
    IF time_series_data = <<>>
    THEN [data |-> time_series_data, shown |-> "nodata"]
    ELSE [data |-> sort(time_series_data), shown |-> "chart"]

(***************************************************************************)
(* The __main__ block.                                                     *)
(***************************************************************************)
Msg(m, f) == [msg |-> m, file |-> f]

\* the uninitialised buffer contents the build may produce
Garbage == {NaN, F(0), F(1)}

Buffers(v, ds) ==
    IF v = "water"
    THEN [UnwrittenNdwi(ds, GREEN_BAND_IN_FILE(v), NIR_BAND_IN_FILE) -> Garbage]
    ELSE {<<>>}

\* the call the loop makes for the variant
calculate_area(v, ds, buf) ==
    IF v = "water"
    THEN calculate_water_area(ds, GREEN_BAND_IN_FILE(v), NIR_BAND_IN_FILE,
                              NDWI_THRESHOLD, PIXEL_AREA_SQ_METERS, buf)
    ELSE calculate_salt_area(ds, GREEN_BAND_IN_FILE(v), NIR_BAND_IN_FILE,
                             RED_BAND_IN_FILE, SWIR_BAND_IN_FILE,
                             SCI_THRESHOLD_MIN, SCI_THRESHOLD_MAX,
                             PIXEL_AREA_SQ_METERS)

\* "if area is not None: print(...); time_series_results.append((year, area))"
append_always(series, year, area) == Append(series, <<year.v, area.v>>)

append_result(series, year, area) ==
    IF area.some THEN Append(series, <<year.v, area.v>>) ELSE series

Ghost(f, kind, year, area) ==
    [file |-> f, kind |-> kind, year |-> year, area |-> area]

\* salt_area.py has no "import sys": len(sys.argv) is evaluated with sys
\* unbound, the NameError is not caught, traceback and exit status 1
NameErrorExit ==
    /\ pc = "argcheck"
    /\ ~sysBound
    /\ pc' = "exited"
    /\ exitStatus' = 1
    /\ log' = Append(log, Msg("traceback", <<>>))
    /\ UNCHANGED <<variant, sysBound, argc, dirExists, disk, listing, idx,
                   time_series_results, opened, outcome, calc, handed,
                   renders, display>>

\* len(sys.argv) != 2: usage text, sys.exit(1)
UsageExit ==
    /\ pc = "argcheck"
    /\ sysBound
    /\ argc # 2
    /\ pc' = "exited"
    /\ exitStatus' = 1
    /\ log' = Append(log, Msg("usage", <<>>))
    /\ UNCHANGED <<variant, sysBound, argc, dirExists, disk, listing, idx,
                   time_series_results, opened, outcome, calc, handed,
                   renders, display>>

\* the argument is taken, the list is created, "Scanning for .tif files"
ArgOk ==
    /\ pc = "argcheck"
    /\ sysBound
    /\ argc = 2
    /\ pc' = "dircheck"
    /\ time_series_results' = <<>>
    /\ log' = Append(log, Msg("scanning", <<>>))
    /\ UNCHANGED <<variant, sysBound, argc, dirExists, disk, listing, idx,
                   exitStatus, opened, outcome, calc, handed, renders, display>>

\* water_area.py: folder not found, sys.exit(1)
DirMissingExit ==
    /\ pc = "dircheck"
    /\ ~dirExists
    /\ variant = "water"
    /\ pc' = "exited"
    /\ exitStatus' = 1
    /\ log' = Append(log, Msg("folder_not_found", <<>>))
    /\ UNCHANGED <<variant, sysBound, argc, dirExists, disk, listing, idx,
                   time_series_results, opened, outcome, calc, handed,
                   renders, display>>

\* salt_area.py: folder not found; the loop and the plot are the else branch,
\* so the script ends here with status 0
DirMissingEnd ==
    /\ pc = "dircheck"
    /\ ~dirExists
    /\ variant = "salt"
    /\ pc' = "exited"
    /\ exitStatus' = 0
    /\ log' = Append(log, Msg("folder_not_found", <<>>))
    /\ UNCHANGED <<variant, sysBound, argc, dirExists, disk, listing, idx,
                   time_series_results, opened, outcome, calc, handed,
                   renders, display>>

\* for filename in sorted(os.listdir(image_folder))
Scan ==
    /\ pc = "dircheck"
    /\ dirExists
    /\ listing' = sorted(DOMAIN disk)
    /\ idx' = 1
    /\ pc' = "loop"
    /\ UNCHANGED <<variant, sysBound, argc, dirExists, disk,
                   time_series_results, log, exitStatus, opened, outcome,
                   calc, handed, renders, display>>

InLoop == pc = "loop" /\ idx <= Len(listing)

\* an entry that is no .tif/.tiff name: nothing happens
SkipEntry ==
    /\ InLoop
    /\ ~IsRasterName(listing[idx])
    /\ idx' = idx + 1
    /\ outcome' = Append(outcome, Ghost(listing[idx], "not_raster", None, None))
    /\ UNCHANGED <<variant, sysBound, argc, dirExists, disk, listing,
                   time_series_results, log, pc, exitStatus, opened, calc,
                   handed, renders, display>>

\* a raster name without a year: warning, the file is not opened
SkipNoYear ==
    /\ InLoop
    /\ IsRasterName(listing[idx])
    /\ LET filename == listing[idx]
           year == extract_year_from_filename(filename)
       IN  /\ ~Truthy(year)
           /\ log' = log \o <<Msg("processing", filename)>>
                         \o (IF year.some THEN <<>>
                             ELSE <<Msg("warning_no_year", filename)>>)
           /\ outcome' = Append(outcome, Ghost(filename, "no_year", year, None))
    /\ idx' = idx + 1
    /\ UNCHANGED <<variant, sysBound, argc, dirExists, disk, listing,
                   time_series_results, pc, exitStatus, opened, calc, handed,
                   renders, display>>

\* a raster name with a year: calculate_*_area, then the sample if any
ProcessRaster ==
    /\ InLoop
    /\ IsRasterName(listing[idx])
    /\ LET filename == listing[idx]
           year == extract_year_from_filename(filename)
       IN  /\ Truthy(year)
           /\ \E buf \in Buffers(variant, disk[filename]) :
                 LET res == calculate_area(variant, disk[filename], buf)
                 IN  /\ calc' = res
                     /\ time_series_results' =
                            append_result(time_series_results, year, res.area)
                     /\ log' = log \o <<Msg("processing", filename)>>
                                   \o (IF res.printed
                                       THEN <<Msg("error", filename)>> ELSE <<>>)
                                   \o (IF res.area.some
                                       THEN <<Msg("found", filename)>> ELSE <<>>)
                     /\ outcome' = Append(outcome,
                            Ghost(filename,
                                  IF res.area.some THEN "sample"
                                  ELSE IF res.printed THEN "error"
                                  ELSE "load_failure",
                                  year, res.area))
           /\ opened' = opened \cup {filename}
    /\ idx' = idx + 1
    /\ UNCHANGED <<variant, sysBound, argc, dirExists, disk, listing, pc,
                   exitStatus, handed, renders, display>>

\* after the loop: "All files processed", plot_area_over_time, end of script
Render ==
    /\ pc = "loop"
    /\ idx > Len(listing)
    /\ LET plot == plot_area_over_time(time_series_results)
       IN  /\ handed' = time_series_results
           /\ time_series_results' = plot.data
           /\ display' = plot.shown
           /\ log' = log \o <<Msg("all_processed", <<>>)>>
                         \o (IF plot.shown = "nodata"
                             THEN <<Msg("no_data", <<>>)>> ELSE <<>>)
    /\ renders' = renders + 1
    /\ pc' = "exited"
    /\ exitStatus' = 0
    /\ UNCHANGED <<variant, sysBound, argc, dirExists, disk, listing, idx,
                   opened, outcome, calc>>

Next ==
    \/ NameErrorExit
    \/ UsageExit
    \/ ArgOk
    \/ DirMissingExit
    \/ DirMissingEnd
    \/ Scan
    \/ SkipEntry
    \/ SkipNoYear
    \/ ProcessRaster
    \/ Render

(***************************************************************************)
(* Inputs: the command line, the directory and the files in it.            *)
(***************************************************************************)
TIF == <<".", "t", "i", "f">>

\* a2009.tif, b2001.TIF, c2001.tiff, x.tif, A1999.txt
Names ==
    { <<"a", "2", "0", "0", "9">> \o TIF,
      <<"b", "2", "0", "0", "1", ".", "T", "I", "F">>,
      <<"c", "2", "0", "0", "1">> \o TIF \o <<"f">>,
      <<"x">> \o TIF,
      <<"A", "1", "9", "9", "9", ".", "t", "x", "t">> }

Grid(a, b, c, d) == <<(<<a, b>>), (<<c, d>>)>>
Uniform(x) == Grid(x, x, x, x)

\* six bands; band 2 and 4 are green and nir of the water script,
\* band 1, 3, 4 and 6 are green, red, nir and swir of the salt script
Mixed ==
    [open |-> TRUE,
     bands |-> << Grid(Q(1, 10), Q(1, 10), Q(1, 2), NaN),
                  Grid(F(3), F(3), F(1), F(0)),
                  Grid(F(1), F(1), F(1), F(0)),
                  Grid(F(1), F(2), NaN, F(0)),
                  Uniform(F(0)),
                  Uniform(F(1)) >>]
Covered ==
    [open |-> TRUE,
     bands |-> << Uniform(Q(1, 10)), Uniform(F(2)), Uniform(F(1)),
                  Uniform(F(1)), Uniform(F(0)), Uniform(F(1)) >>]
Unreadable == [open |-> FALSE, bands |-> <<>>]
\* green is 1 x 2, the other bands are 2 x 2
RowAgainstGrid ==
    [open |-> TRUE,
     bands |-> << <<(<<Q(1, 10), Q(1, 2)>>)>>, <<(<<F(3), F(0)>>)>>,
                  Uniform(F(1)), Uniform(F(1)), Uniform(F(0)), Uniform(F(1)) >>]
\* green is 1 x 3, the other bands are 2 x 2
Incompatible ==
    [open |-> TRUE,
     bands |-> << <<(<<F(1), F(1), F(1)>>)>>, <<(<<F(1), F(1), F(1)>>)>>,
                  Uniform(F(1)), Uniform(F(1)), Uniform(F(0)), Uniform(F(1)) >>]
\* a file with three bands only
ThreeBands ==
    [open |-> TRUE,
     bands |-> << Uniform(F(1)), Uniform(F(1)), Uniform(F(1)) >>]

Rasters == {Mixed, Covered, Unreadable, RowAgainstGrid, Incompatible, ThreeBands}

\* the command line and the interpreter's globals
\* water_area.py imports sys.  salt_area.py does not: under a plain
\* "python salt_area.py" the name is unbound, and it resolves only when the
\* globals the script is executed in already bind it (runpy with
\* init_globals, an interactive session's namespace).
Launch ==
    /\ variant \in {"water", "salt"}
    /\ sysBound \in (IF variant = "water" THEN {TRUE} ELSE BOOLEAN)
    /\ argc \in 1..3
    /\ dirExists \in BOOLEAN
    /\ listing = <<>>
    /\ idx = 0
    /\ time_series_results = <<>>
    /\ log = <<>>
    /\ pc = "argcheck"
    /\ exitStatus = 0
    /\ opened = {}
    /\ outcome = <<>>
    /\ calc = Failed(FALSE)
    /\ handed = <<>>
    /\ renders = 0
    /\ display = "none"

\* the run gets as far as listing the directory
Lists == sysBound /\ argc = 2 /\ dirExists

\* the directories of the batch specification: at most MaxFiles of the names
Init ==
    /\ Launch
    /\ IF Lists
       THEN \E S \in SUBSET Names :
              /\ Cardinality(S) <= MaxFiles
              /\ disk \in [S -> Rasters]
       ELSE disk = <<>>

Spec == Init /\ [][Next]_vars

(***************************************************************************)
(* Year specification: directories of one raster file whose name is any    *)
(* string of at most MaxStem characters followed by ".tif".                *)
(***************************************************************************)
YearAlphabet == {"1", "9", "2", "0", "x"}

NotARaster == <<"A", "1", "9", "9", "9", ".", "t", "x", "t">>

OneFile(f, ds) == [g \in {f} |-> ds]

InitYear ==
    /\ Launch
    /\ IF Lists
       THEN \/ \E n \in 0..MaxStem : \E stem \in [1..n -> YearAlphabet] :
                 disk = OneFile(stem \o TIF, Covered)
            \/ disk = OneFile(NotARaster, Covered)
       ELSE disk = <<>>

SpecYear == InitYear /\ [][Next]_vars

(***************************************************************************)
(* Index specification: directories of one raster file whose green and     *)
(* nir bands (of the water script) are any 1 x n arrays, n <= MaxCols.     *)
(***************************************************************************)
BandValues == {NaN, F(-1), F(0), F(1), F(3)}

Row(n, x) == <<[c \in 1..n |-> x]>>

Dated == <<"a", "2", "0", "0", "9">> \o TIF

InitIndex ==
    /\ Launch
    /\ IF Lists
       THEN \/ \E n \in 1..MaxCols :
                 \E g \in [1..n -> BandValues], m \in [1..n -> BandValues] :
                   disk = OneFile(Dated,
                            [open |-> TRUE,
                             bands |-> << Row(n, Q(1, 10)), <<g>>, Row(n, F(1)),
                                          <<m>>, Row(n, F(0)), Row(n, F(1)) >>])
            \/ disk = OneFile(<<"x">> \o TIF, Covered)
            \/ disk = OneFile(NotARaster, Covered)
       ELSE disk = <<>>

SpecIndex == InitIndex /\ [][Next]_vars

(***************************************************************************)
(* Properties.                                                             *)
(***************************************************************************)
FailureKinds == {"no_year", "load_failure", "error"}

\* the loop body has just run for one more directory entry
Iterated == Len(outcome') = Len(outcome) + 1
Latest == outcome'[Len(outcome')]

\* the (year, area) pairs of the entries that gave a sample, in loop order
RECURSIVE SamplesOf(_)
SamplesOf(o) ==
    IF o = <<>> THEN <<>>
    ELSE LET g == o[Len(o)]
             front == SamplesOf(SubSeq(o, 1, Len(o) - 1))
         IN  IF g.kind = "sample" THEN Append(front, <<g.year.v, g.area.v>>)
             ELSE front

C2_SeriesInFileOrder ==
    /\ [](pc = "loop" => time_series_results = SamplesOf(outcome))
    /\ [](\A i \in 1..Len(outcome) :
            /\ outcome[i].file = listing[i]
            /\ \A j \in 1..Len(outcome) :
                  i < j => StrLess(outcome[i].file, outcome[j].file))
    /\ [](renders = 1 =>
            /\ handed = SamplesOf(outcome)
            /\ {outcome[i].file : i \in 1..Len(outcome)} = DOMAIN disk
            /\ \A i \in 1..Len(outcome) :
                  outcome[i].kind = "sample" =>
                      /\ IsRasterName(outcome[i].file)
                      /\ outcome[i].year.some
                      /\ outcome[i].area.some
            /\ \A i \in 1..Len(outcome) :
                  (/\ IsRasterName(outcome[i].file)
                   /\ outcome[i].year.some
                   /\ outcome[i].area.some) => outcome[i].kind = "sample")
    /\ [][pc = "loop" /\ pc' = "loop"
            => \/ time_series_results' = time_series_results
               \/ \E x \in {<<Latest.year.v, Latest.area.v>>} :
                     time_series_results' = Append(time_series_results, x)]_vars

\* a water run handed over three samples, years not ascending, one year twice
C2_Witness ==
    /\ variant = "water"
    /\ renders = 1
    /\ Len(handed) = 3
    /\ handed[1][1] > handed[2][1]
    /\ handed[2][1] = handed[3][1]

\* the positions of the latest water computation, when both bands have one shape
SameShaped ==
    /\ variant = "water"
    /\ calc.index # <<>>
    /\ Shape(calc.green) = Shape(calc.nir)
Pixels == (1..Rows(calc.index)) \X (1..Cols(calc.index))
GreenAt(rc) == calc.green[rc[1]][rc[2]]
NirAt(rc) == calc.nir[rc[1]][rc[2]]
IndexAt(rc) == calc.index[rc[1]][rc[2]]
SumIsZero(rc) == ~fne0(fadd(GreenAt(rc), NirAt(rc)))
InUnitRange(x) == ~isnan(x) /\ -x.d <= x.n /\ x.n <= x.d
NonNegative(x) == isnan(x) \/ x.n >= 0

\* C3: in the water variant, wherever green + nir is exactly zero the index
\* is exactly 0 when the mask is evaluated, so the pixel is in the mask only
\* if the threshold is below 0.
C3_ZeroSumGivesZero ==
    SameShaped =>
        \A rc \in Pixels :
            SumIsZero(rc) =>
                /\ ~isnan(IndexAt(rc))
                /\ IndexAt(rc).n = 0
                /\ (calc.mask[rc[1]][rc[2]] => fgt(F(0), NDWI_THRESHOLD))

\* C4 as stated: in the water variant the index lies in [-1, 1] wherever
\* green + nir is nonzero, for any band values, negative ones included.
C4_IndexInUnitRange ==
    SameShaped =>
        \A rc \in Pixels : ~SumIsZero(rc) => InUnitRange(IndexAt(rc))

\* C4 as amended: in the water variant the index lies in [-1, 1] wherever
\* green + nir is nonzero and neither band value is negative.
C4_IndexInUnitRangeNonNegative ==
    SameShaped =>
        \A rc \in Pixels :
            (/\ ~SumIsZero(rc)
             /\ NonNegative(GreenAt(rc))
             /\ NonNegative(NirAt(rc))) => InUnitRange(IndexAt(rc))

\* a computed index strictly between 0 and 1 from non-negative bands, next
\* to a pixel with a not-a-number band
C4_Witness ==
    /\ SameShaped
    /\ \E rc \in Pixels :
          /\ ~SumIsZero(rc)
          /\ ~isnan(GreenAt(rc)) /\ GreenAt(rc).n > 0
          /\ ~isnan(NirAt(rc)) /\ NirAt(rc).n > 0
          /\ IndexAt(rc).n > 0
          /\ IndexAt(rc).n < IndexAt(rc).d
    /\ \E rc \in Pixels : isnan(NirAt(rc))

Logged(m) == \E k \in 1..Len(log) : log[k].msg = m

\* C5: started without exactly one argument, either script prints the usage
\* text and ends with a non-zero status, and neither scans nor renders.
C5_UsageOnBadArguments ==
    (pc = "exited" /\ argc # 2) =>
        /\ Logged("usage")
        /\ exitStatus # 0
        /\ idx = 0 /\ listing = <<>>
        /\ renders = 0 /\ display = "none"

AllHandled == Len(outcome) = Len(listing) /\ idx = Len(listing) + 1
ShownFor(series) == IF series = <<>> THEN "nodata" ELSE "chart"

Occurrences(x, t) == Cardinality({k \in 1..Len(t) : t[k] = x})

\* C7: the sort of the renderer leaves a permutation of the samples it was
\* given, ascending by year and, within one year, ascending by area; an
\* empty series is neither sorted nor plotted, the notice is printed.
C7_SortedByYearThenArea ==
    renders = 1 =>
        IF handed = <<>>
        THEN /\ time_series_results = <<>>
             /\ display = "nodata"
             /\ log[Len(log)].msg = "no_data"
        ELSE /\ display = "chart"
             /\ ~Logged("no_data")
             /\ Len(time_series_results) = Len(handed)
             /\ \A k \in 1..Len(handed) :
                   Occurrences(handed[k], time_series_results)
                       = Occurrences(handed[k], handed)
             /\ \A i, j \in 1..Len(time_series_results) :
                   i < j =>
                     LET x == time_series_results[i]
                         y == time_series_results[j]
                     IN  x[1] < y[1] \/ (x[1] = y[1] /\ x[2] <= y[2])

\* three samples arrived with the later year first and, within the repeated
\* year, the larger area first
C7_Witness ==
    /\ renders = 1
    /\ Len(handed) = 3
    /\ handed[1][1] > handed[2][1]
    /\ handed[2][1] = handed[3][1]
    /\ handed[2][2] > handed[3][2]
    /\ time_series_results # handed

\* the four characters from position p are "19" or "20" and two digits
YearStartsAt(s, p) ==
    /\ p + 3 <= Len(s)
    /\ SubSeq(s, p, p + 1) \in {<<"1", "9">>, <<"2", "0">>}
    /\ {s[p + 2], s[p + 3]} \subseteq Digits
YearStarts(s) == {p \in 1..Len(s) : YearStartsAt(s, p)}
Leftmost(S) == CHOOSE p \in S : \A q \in S : p <= q
ValueAt(s, p) ==
    DigitVal(s[p]) * 1000 + DigitVal(s[p + 1]) * 100
        + DigitVal(s[p + 2]) * 10 + DigitVal(s[p + 3])

\* C8: the year of a filename is the value of its leftmost "19dd"/"20dd"
\* substring, a number in 1900..2099, and None exactly when there is no
\* such substring; the loop skips a raster name without a year before the
\* file is opened or an area computed, and never skips one that has a year.
C8_LeftmostYear ==
    \A i \in 1..Len(outcome) :
        LET g == outcome[i]
            starts == YearStarts(g.file)
        IN  IsRasterName(g.file) =>
              /\ g.year.some <=> starts # {}
              /\ starts # {} =>
                    /\ g.year.v = ValueAt(g.file, Leftmost(starts))
                    /\ g.year.v \in 1900..2099
                    /\ g.kind \in {"sample", "error", "load_failure"}
                    /\ g.file \in opened
              /\ starts = {} =>
                    /\ g.kind = "no_year"
                    /\ g.file \notin opened
                    /\ ~g.area.some
                    /\ \E k \in 1..Len(log) :
                          log[k] = Msg("warning_no_year", g.file)

\* a name with two year substrings, the leftmost taken, gave a sample
C8_Witness ==
    \E i \in 1..Len(outcome) :
        /\ Cardinality(YearStarts(outcome[i].file)) >= 2
        /\ outcome[i].kind = "sample"
        /\ time_series_results[1][1]
              = ValueAt(outcome[i].file, Leftmost(YearStarts(outcome[i].file)))

RequiredBands ==
    IF variant = "water" THEN {GREEN_BAND_IN_FILE(variant), NIR_BAND_IN_FILE}
    ELSE {GREEN_BAND_IN_FILE(variant), NIR_BAND_IN_FILE, RED_BAND_IN_FILE,
          SWIR_BAND_IN_FILE}

ShapesDiffer(ds) ==
    /\ ds.open
    /\ \A k \in RequiredBands : HasBand(ds, k)
    /\ \E a, b \in RequiredBands : Shape(ds.bands[a]) # Shape(ds.bands[b])

\* C9: a file two of whose required bands differ in shape, also when the
\* shapes can be broadcast (1 x N against M x N), is a per-file failure: it
\* yields no area and no sample.
C9_ShapeMismatchIsFailure ==
    \A i \in 1..Len(outcome) :
        (/\ outcome[i].kind \in {"sample", "error", "load_failure"}
         /\ ShapesDiffer(disk[outcome[i].file])) =>
            /\ outcome[i].kind = "error"
            /\ ~outcome[i].area.some

\* C10: for a raster that cannot be opened the script logs a message about
\* the failed file, records no sample and goes on with the next entry.
C10_LoadFailureIsLogged ==
    \A i \in 1..Len(outcome) :
        outcome[i].kind = "load_failure" =>
            /\ ~outcome[i].area.some
            /\ pc = "loop" \/ (pc = "exited" /\ exitStatus = 0)
            /\ \E k \in 1..Len(log) :
                  /\ log[k].file = outcome[i].file
                  /\ log[k].msg \in {"error", "warning_no_year"}

====
